---- MODULE Spec2Model ----
(***************************************************************************)
(* A model of the Salford reel generator: ReelVideoGenerator.generate_video *)
(* (src/reel_video_generator.py) driven by main and select_daily_story     *)
(* (src/daily_reel_automation.py).                                         *)
(*                                                                         *)
(* Times are whole seconds.  The caption timings divide by the number of   *)
(* split fragments; they are kept exact as numerators over that common     *)
(* denominator (lines_den), so x seconds is stored as x * lines_den.       *)
(* Floating-point rounding is not modelled.  The external steps (speech    *)
(* synthesis, HTTP search and download, the media library's open, text     *)
(* and render calls) succeed or fail nondeterministically; the geometry    *)
(* of the downloaded clip (resize, crop) is not part of the state.         *)
(***************************************************************************)
EXTENDS Integers, Sequences, FiniteSets, TLC

(* ---- bounds of the model ---- *)
MaxLen == 3
MaxAudio == 2
MaxVideoDuration == 4
MaxBgDuration == 3
MaxYears == 5

(* ---- program constants ---- *)
LeadIn == 3
TitleDuration == 3
HashtagDuration == 2
FrameW == 1080
FrameH == 1920
MainVideoDuration == 30
NumStories == 8
DaysInYear == 365
DaysInLeapYear == 366

Chars == {"a", ".", " "}
Texts == UNION {[1..n -> Chars] : n \in 0..MaxLen}
AudioDurations == 0..MaxAudio
VideoDurations == (1..MaxVideoDuration) \cup {MainVideoDuration}
BgDurations == 1..MaxBgDuration

NoKey == "None"
EnvKeyValue == "env-key"
DefaultKey == "jGfFPRv1pDf617NAP4UIhITmFVX987cCP2rCssvkSGwEuL9mMcp7I5Hx"
NoQuery == "None"
SomeQuery == "query"

Min(a, b) == IF a <= b THEN a ELSE b
Max(a, b) == IF a >= b THEN a ELSE b

(* ---- str.split('. ') : left to right, non-overlapping separators ---- *)
RECURSIVE SplitFrom(_, _, _)
SplitFrom(s, i, cur) ==
    IF i > Len(s) THEN <<cur>>
    ELSE IF i < Len(s) /\ s[i] = "." /\ s[i + 1] = " "
         THEN <<cur>> \o SplitFrom(s, i + 2, <<>>)
         ELSE SplitFrom(s, i + 1, Append(cur, s[i]))

Split(s) == SplitFrom(s, 1, <<>>)

(* ---- str.strip() : drop leading and trailing whitespace ---- *)
RECURSIVE LStrip(_)
LStrip(s) == IF s # <<>> /\ Head(s) = " " THEN LStrip(Tail(s)) ELSE s

RECURSIVE RStrip(_)
RStrip(s) ==
    IF s # <<>> /\ s[Len(s)] = " " THEN RStrip(SubSeq(s, 1, Len(s) - 1)) ELSE s

Strip(s) == RStrip(LStrip(s))


(* ---- the state ---- *)
VARIABLES
    pc,               \* position in main / generate_video
    story_text,       \* story_data['story']
    video_duration,   \* self.video_duration
    env_key,          \* os.getenv('PEXELS_API_KEY')
    background_query, \* the background_query argument
    pexels_api_key,   \* self.pexels_api_key
    temp_dir,         \* [exists, files] : the mkdtemp() directory
    opened,           \* media handles opened so far
    closed,           \* media handles closed so far
    audio_duration,   \* audio_clip.duration
    actual_duration,  \* the target duration
    background_clip,  \* the background of the composition
    overlays,         \* [composed, den, title, captions, hashtag]
    output_file,      \* the file at output_path: none / partial / complete
    result,           \* what generate_video returned
    exit_code,        \* what main returned to sys.exit
    calls,            \* external calls made: [tts, search, download]
    outcome,          \* how each external step went
    year, yday,       \* the calendar day datetime.now() reports
    selections        \* select_daily_story's picks of the latest consecutive days

pipeline_vars ==
    <<pc, story_text, video_duration, env_key, background_query, pexels_api_key,
      temp_dir, opened, closed, audio_duration, actual_duration, background_clip,
      overlays, output_file, result, exit_code, calls, outcome>>
calendar_vars == <<year, yday, selections>>
vars == <<pipeline_vars, calendar_vars>>

Unset == 0 - 1
NoClip == [kind |-> "none"]
NoOverlays ==
    [composed |-> FALSE, den |-> 1, title |-> <<>>, captions |-> <<>>, hashtag |-> <<>>]
Steps == {"tts", "audio", "search", "download", "transform", "overlays", "render"}

(* ---- select_daily_story ---- *)
IsLeap(y) == y % 4 = 0
YearLength(y) == IF IsLeap(y) THEN DaysInLeapYear ELSE DaysInYear

SelectDailyStory(day_of_year) == day_of_year % NumStories

(* ---- ReelVideoGenerator.__init__ : the key, or the built-in default ---- *)
Truthy(v) == v # NoKey /\ v # ""

ResolveKeyNoDefault(key) == key

ResolveKey(key) == IF Truthy(key) THEN key ELSE DefaultKey

(* ---- the target duration ---- *)
ActualDuration(audio, cap) == Min(audio + LeadIn, cap)

(* ---- background looping ---- *)
LoopsNoExtra(bg, target) == IF bg < target THEN target \div bg ELSE 1

Loops(bg, target) == IF bg < target THEN (target \div bg) + 1 ELSE 1

LoopedBackground(bg, target) ==
    [kind |-> "video",
     native_duration |-> bg,
     looped |-> bg < target,
     loops |-> Loops(bg, target),
     source_duration |-> Loops(bg, target) * bg,
     t_start |-> 0,
     duration |-> target - 0]

CreateSolidBackgroundFullLength(duration) ==
    [kind |-> "solid", w |-> FrameW, h |-> FrameH, duration |-> video_duration]

CreateSolidBackground(duration) ==
    [kind |-> "solid", w |-> FrameW, h |-> FrameH, duration |-> duration]

(* ---- the overlays; start and duration are numerators over den ---- *)
Indices(lines) ==
    SelectSeq([i \in 1..Len(lines) |-> i], LAMBDA i : Strip(lines[i]) # <<>>)

Caption(lines, i, target, den) ==
    LET time_per_line == target - LeadIn          \* over den
        start_time == LeadIn * den + (i * time_per_line)
    IN  [text |-> Strip(lines[i + 1]) \o <<".">>,
         start |-> start_time,
         duration |-> Min(time_per_line, target * den - start_time)]

Subtitles(text, target) ==
    LET lines == Split(text)
        den == Max(Len(lines), 1)
        idx == Indices(lines)
    IN  [j \in 1..Len(idx) |-> Caption(lines, idx[j] - 1, target, den)]

ComposeOverlays(text, target) ==
    LET den == Max(Len(Split(text)), 1)
    IN  [composed |-> TRUE,
         den |-> den,
         title |-> <<[start |-> 0, duration |-> TitleDuration * den]>>,
         captions |-> Subtitles(text, target),
         hashtag |-> <<[start |-> (target - HashtagDuration) * den,
                        duration |-> HashtagDuration * den]>>]

(* ---- the initial state: main has not started ---- *)
Init ==
    /\ pc = "start"
    /\ story_text \in Texts
    /\ video_duration \in VideoDurations
    /\ env_key \in {NoKey, EnvKeyValue}
    /\ background_query \in {NoQuery, SomeQuery}
    /\ pexels_api_key = NoKey
    /\ temp_dir = [exists |-> FALSE, files |-> {}]
    /\ opened = {}
    /\ closed = {}
    /\ audio_duration = Unset
    /\ actual_duration = Unset
    /\ background_clip = NoClip
    /\ overlays = NoOverlays
    /\ output_file = "none"
    /\ result = "unset"
    /\ exit_code = Unset
    /\ calls = [tts |-> 0, search |-> 0, download |-> 0]
    /\ outcome = [s \in Steps |-> "pending"]
    /\ year = 1
    /\ yday = 1
    /\ selections = <<Unset>>

(* ---- the exception path: a raise inside the try block ---- *)
Raise(step) ==
    /\ outcome' = [outcome EXCEPT ![step] = "error"]
    /\ pc' = "except"

(* main: pick today's story, construct the generator *)
GeneratorInit ==
    /\ pc = "start"
    /\ selections' = [selections EXCEPT ![Len(selections)] = SelectDailyStory(yday)]
    /\ pexels_api_key' = ResolveKey(env_key)
    /\ pc' = "generate_video"
    /\ UNCHANGED <<story_text, video_duration, env_key, background_query, temp_dir,
                   opened, closed, audio_duration, actual_duration, background_clip,
                   overlays, output_file, result, exit_code, calls, outcome, year, yday>>

(* generate_video: output path, tempfile.mkdtemp() *)
MakeTempDir ==
    /\ pc = "generate_video"
    /\ temp_dir' = [exists |-> TRUE, files |-> {}]
    /\ pc' = "tts"
    /\ UNCHANGED <<story_text, video_duration, env_key, background_query, pexels_api_key,
                   opened, closed, audio_duration, actual_duration, background_clip,
                   overlays, output_file, result, exit_code, calls, outcome,
                   calendar_vars>>

(* step 1: asyncio.run(self.generate_tts(...)) writes audio.mp3 into temp_dir *)
GenerateTts ==
    /\ pc = "tts"
    /\ calls' = [calls EXCEPT !.tts = @ + 1]
    /\ \/ /\ outcome' = [outcome EXCEPT !["tts"] = "ok"]
          /\ temp_dir' = [temp_dir EXCEPT !.files = @ \cup {"audio.mp3"}]
          /\ pc' = "audio"
       \/ /\ Raise("tts")
          /\ \E partial \in SUBSET {"audio.mp3"} :
                temp_dir' = [temp_dir EXCEPT !.files = @ \cup partial]
    /\ UNCHANGED <<story_text, video_duration, env_key, background_query, pexels_api_key,
                   opened, closed, audio_duration, actual_duration, background_clip,
                   overlays, output_file, result, exit_code, calendar_vars>>

(* AudioFileClip(audio_path); actual_duration = min(duration + 3, video_duration) *)
OpenAudio ==
    /\ pc = "audio"
    /\ \/ \E d \in AudioDurations :
            /\ outcome' = [outcome EXCEPT !["audio"] = "ok"]
            /\ opened' = opened \cup {"audio"}
            /\ audio_duration' = d
            /\ actual_duration' = ActualDuration(d, video_duration)
            /\ pc' = "background"
       \/ /\ Raise("audio")
          /\ UNCHANGED <<opened, audio_duration, actual_duration>>
    /\ UNCHANGED <<story_text, video_duration, env_key, background_query, pexels_api_key,
                   temp_dir, closed, background_clip, overlays, output_file, result,
                   exit_code, calls, calendar_vars>>

(* step 2: if background_query and self.pexels_api_key *)
PrepareBackground ==
    /\ pc = "background"
    /\ pc' = IF background_query # NoQuery /\ Truthy(pexels_api_key)
             THEN "search" ELSE "solid"
    /\ UNCHANGED <<story_text, video_duration, env_key, background_query, pexels_api_key,
                   temp_dir, opened, closed, audio_duration, actual_duration,
                   background_clip, overlays, output_file, result, exit_code, calls,
                   outcome, calendar_vars>>

(* search_pexels_videos: an exception of the request is caught and [] returned *)
SearchPexelsVideosRaising ==
    /\ pc = "search"
    /\ calls' = [calls EXCEPT !.search = @ + 1]
    /\ \E r \in {"error", "empty", "results"} :
          /\ outcome' = [outcome EXCEPT !["search"] = r]
          /\ pc' = CASE r = "results" -> "download"
                     [] r = "empty" -> "solid"
                     [] OTHER -> "except"
    /\ UNCHANGED <<story_text, video_duration, env_key, background_query, pexels_api_key,
                   temp_dir, opened, closed, audio_duration, actual_duration,
                   background_clip, overlays, output_file, result, exit_code,
                   calendar_vars>>

SearchPexelsVideos ==
    /\ pc = "search"
    /\ IF ~Truthy(pexels_api_key)
       THEN /\ outcome' = [outcome EXCEPT !["search"] = "empty"]
            /\ pc' = "solid"
            /\ UNCHANGED calls
       ELSE /\ calls' = [calls EXCEPT !.search = @ + 1]
            /\ \E r \in {"error", "empty", "results"} :
                  /\ outcome' = [outcome EXCEPT !["search"] = r]
                  /\ pc' = IF r = "results" THEN "download" ELSE "solid"
    /\ UNCHANGED <<story_text, video_duration, env_key, background_query, pexels_api_key,
                   temp_dir, opened, closed, audio_duration, actual_duration,
                   background_clip, overlays, output_file, result, exit_code,
                   calendar_vars>>

(* download_video: an exception is caught and None returned *)
DownloadVideo ==
    /\ pc = "download"
    /\ calls' = [calls EXCEPT !.download = @ + 1]
    /\ \/ /\ outcome' = [outcome EXCEPT !["download"] = "ok"]
          /\ temp_dir' = [temp_dir EXCEPT !.files = @ \cup {"background.mp4"}]
          /\ pc' = "transform"
       \/ /\ outcome' = [outcome EXCEPT !["download"] = "error"]
          /\ \E partial \in SUBSET {"background.mp4"} :
                temp_dir' = [temp_dir EXCEPT !.files = @ \cup partial]
          /\ pc' = "solid"
    /\ UNCHANGED <<story_text, video_duration, env_key, background_query, pexels_api_key,
                   opened, closed, audio_duration, actual_duration, background_clip,
                   overlays, output_file, result, exit_code, calendar_vars>>

(* VideoFileClip, resize, crop, loop, subclip(0, actual_duration) *)
TransformBackground ==
    /\ pc = "transform"
    /\ \/ \E b \in BgDurations :
            /\ outcome' = [outcome EXCEPT !["transform"] = "ok"]
            /\ opened' = opened \cup {"background"}
            /\ background_clip' = LoopedBackground(b, actual_duration)
            /\ pc' = "overlays"
       \/ /\ Raise("transform")
          /\ \E h \in SUBSET {"background"} : opened' = opened \cup h
          /\ UNCHANGED background_clip
    /\ UNCHANGED <<story_text, video_duration, env_key, background_query, pexels_api_key,
                   temp_dir, closed, audio_duration, actual_duration, overlays,
                   output_file, result, exit_code, calls, calendar_vars>>

(* if background_clip is None: create_solid_background(actual_duration) *)
SolidBackground ==
    /\ pc = "solid"
    /\ background_clip' = CreateSolidBackground(actual_duration)
    /\ pc' = "overlays"
    /\ UNCHANGED <<story_text, video_duration, env_key, background_query, pexels_api_key,
                   temp_dir, opened, closed, audio_duration, actual_duration, overlays,
                   output_file, result, exit_code, calls, outcome, calendar_vars>>

(* step 3: title, subtitles, hashtags *)
CreateOverlays ==
    /\ pc = "overlays"
    /\ \/ /\ outcome' = [outcome EXCEPT !["overlays"] = "ok"]
          /\ overlays' = ComposeOverlays(story_text, actual_duration)
          /\ pc' = "render"
       \/ /\ Raise("overlays")
          /\ UNCHANGED overlays
    /\ UNCHANGED <<story_text, video_duration, env_key, background_query, pexels_api_key,
                   temp_dir, opened, closed, audio_duration, actual_duration,
                   background_clip, output_file, result, exit_code, calls,
                   calendar_vars>>

(* step 4: CompositeVideoClip, set_audio, write_videofile(output_path, ...) *)
Render ==
    /\ pc = "render"
    /\ opened' = opened \cup {"final"}
    /\ \/ /\ outcome' = [outcome EXCEPT !["render"] = "ok"]
          /\ output_file' = "complete"
          /\ UNCHANGED temp_dir
          /\ pc' = "close"
       \/ /\ Raise("render")
          /\ output_file' \in {"none", "partial"}
          /\ \E partial \in SUBSET {"temp-audio.m4a"} :
                temp_dir' = [temp_dir EXCEPT !.files = @ \cup partial]
    /\ UNCHANGED <<story_text, video_duration, env_key, background_query, pexels_api_key,
                   closed, audio_duration, actual_duration, background_clip, overlays,
                   result, exit_code, calls, calendar_vars>>

(* audio_clip.close(); background_clip.close(); final_video.close(); return path *)
CloseClips ==
    /\ pc = "close"
    /\ closed' = closed \cup (opened \cap {"audio", "background", "final"})
    /\ result' = "path"
    /\ pc' = "finally"
    /\ UNCHANGED <<story_text, video_duration, env_key, background_query, pexels_api_key,
                   temp_dir, opened, audio_duration, actual_duration, background_clip,
                   overlays, output_file, exit_code, calls, outcome, calendar_vars>>

(* except Exception: print, return None *)
ExceptHandler ==
    /\ pc = "except"
    /\ result' = "None"
    /\ pc' = "finally"
    /\ UNCHANGED <<story_text, video_duration, env_key, background_query, pexels_api_key,
                   temp_dir, opened, closed, audio_duration, actual_duration,
                   background_clip, overlays, output_file, exit_code, calls, outcome,
                   calendar_vars>>

(* finally: if temp_dir.exists(): shutil.rmtree(temp_dir) *)
FinallyOnSuccessOnly ==
    /\ pc = "finally"
    /\ temp_dir' = IF temp_dir.exists /\ result = "path"
                   THEN [exists |-> FALSE, files |-> {}] ELSE temp_dir
    /\ pc' = "returned"
    /\ UNCHANGED <<story_text, video_duration, env_key, background_query, pexels_api_key,
                   opened, closed, audio_duration, actual_duration, background_clip,
                   overlays, output_file, result, exit_code, calls, outcome,
                   calendar_vars>>

Finally ==
    /\ pc = "finally"
    /\ temp_dir' = IF temp_dir.exists
                   THEN [exists |-> FALSE, files |-> {}] ELSE temp_dir
    /\ pc' = "returned"
    /\ UNCHANGED <<story_text, video_duration, env_key, background_query, pexels_api_key,
                   opened, closed, audio_duration, actual_duration, background_clip,
                   overlays, output_file, result, exit_code, calls, outcome,
                   calendar_vars>>

(* main: return 0 if video_path else 1; sys.exit(main()) *)
MainExit ==
    /\ pc = "returned"
    /\ exit_code' = IF result = "path" THEN 0 ELSE 1
    /\ pc' = "exited"
    /\ UNCHANGED <<story_text, video_duration, env_key, background_query, pexels_api_key,
                   temp_dir, opened, closed, audio_duration, actual_duration,
                   background_clip, overlays, output_file, result, calls, outcome,
                   calendar_vars>>

Next ==
    \/ GeneratorInit
    \/ MakeTempDir
    \/ GenerateTts
    \/ OpenAudio
    \/ PrepareBackground
    \/ SearchPexelsVideos
    \/ DownloadVideo
    \/ TransformBackground
    \/ SolidBackground
    \/ CreateOverlays
    \/ Render
    \/ CloseClips
    \/ ExceptHandler
    \/ Finally
    \/ MainExit

Spec == Init /\ [][Next]_vars

(* ---- the calendar: select_daily_story over consecutive days ---- *)
(* selections holds the picks of the latest consecutive days; its last     *)
(* entry is today's, Unset until select_daily_story has run today.         *)
CalendarInit ==
    /\ pc = "start"
    /\ story_text = <<>>
    /\ video_duration = MainVideoDuration
    /\ env_key = NoKey
    /\ background_query = SomeQuery
    /\ pexels_api_key = NoKey
    /\ temp_dir = [exists |-> FALSE, files |-> {}]
    /\ opened = {}
    /\ closed = {}
    /\ audio_duration = Unset
    /\ actual_duration = Unset
    /\ background_clip = NoClip
    /\ overlays = NoOverlays
    /\ output_file = "none"
    /\ result = "unset"
    /\ exit_code = Unset
    /\ calls = [tts |-> 0, search |-> 0, download |-> 0]
    /\ outcome = [s \in Steps |-> "pending"]
    /\ year = 1
    /\ yday = 1
    /\ selections = <<Unset>>

LastN(seq, n) == IF Len(seq) <= n THEN seq ELSE SubSeq(seq, Len(seq) - n + 1, Len(seq))

(* select_daily_story() is called on the current day *)
SelectToday ==
    /\ selections' = [selections EXCEPT ![Len(selections)] = SelectDailyStory(yday)]
    /\ UNCHANGED <<year, yday, pipeline_vars>>

(* midnight: tm_yday advances, and restarts at 1 after the year's last day *)
NextDay ==
    /\ yday < YearLength(year) \/ year < MaxYears
    /\ IF yday < YearLength(year)
       THEN yday' = yday + 1 /\ year' = year
       ELSE yday' = 1 /\ year' = year + 1
    /\ selections' = IF selections[Len(selections)] = Unset
                     THEN <<Unset>>
                     ELSE Append(LastN(selections, NumStories), Unset)
    /\ UNCHANGED pipeline_vars

CalendarNext == SelectToday \/ NextDay

CalendarSpec == CalendarInit /\ [][CalendarNext]_vars

(***************************************************************************)
(* The claims.                                                             *)
(***************************************************************************)
Returned == pc \in {"returned", "exited"}
(* main's own arguments: video_duration=30 and the story's background query *)
MainRun == video_duration = MainVideoDuration /\ background_query # NoQuery
AllOverlays ==
    {overlays.title[1], overlays.hashtag[1]}
        \cup {overlays.captions[j] : j \in 1..Len(overlays.captions)}
NonEmptyFragments(text) == Len(Indices(Split(text)))

(* C1: once the overlays are composed, the target duration is             *)
(* min(narration duration + 3, video_duration) and every overlay (title,   *)
(* captions, hashtag card) has start >= 0, duration >= 0 and               *)
(* start + duration <= target duration.                                    *)
C1_OverlaysWithinTarget ==
    overlays.composed =>
        /\ actual_duration = Min(audio_duration + LeadIn, video_duration)
        /\ overlays.title[1].start = 0
        /\ overlays.title[1].duration = LeadIn * overlays.den
        /\ overlays.hashtag[1].start + overlays.hashtag[1].duration
              = actual_duration * overlays.den
        /\ \A o \in AllOverlays :
              /\ o.start >= 0
              /\ o.duration >= 0
              /\ o.start + o.duration <= actual_duration * overlays.den

(* C2: when the narration window [3, target] is not empty, a text whose    *)
(* split yields k non-empty fragments gets exactly k captions, with        *)
(* strictly increasing starts, the first starting at the lead-in, each     *)
(* ending where the next starts, and the last ending at the target         *)
(* duration; empty and whitespace-only fragments are dropped.              *)
C2_CaptionsPartitionWindow ==
    (overlays.composed /\ actual_duration > LeadIn) =>
        LET caps == overlays.captions
            k == NonEmptyFragments(story_text)
        IN  /\ Len(caps) = k
            /\ \A j \in 1..(Len(caps) - 1) :
                  /\ caps[j].start < caps[j + 1].start
                  /\ caps[j].start + caps[j].duration = caps[j + 1].start
            /\ k > 0 =>
                  /\ caps[1].start = LeadIn * overlays.den
                  /\ caps[Len(caps)].start + caps[Len(caps)].duration
                        = actual_duration * overlays.den

(* C3: over consecutive days, year changes included, each day's pick is    *)
(* day_ordinal mod N, the next day's pick is the next catalog entry        *)
(* (wrapping from the last to the first), and the pick repeats after       *)
(* exactly N days.                                                         *)
C3_DailyStoryCycle ==
    LET n == Len(selections)
        picked(i) == selections[i] # Unset
    IN  /\ picked(n) => selections[n] = yday % NumStories
        /\ \A i \in 1..(n - 1) :
              picked(i + 1) => selections[i + 1] = (selections[i] + 1) % NumStories
        /\ (n = NumStories + 1 /\ picked(n)) => selections[n] = selections[1]
        /\ \A i \in 1..(n - 1) : \A j \in (i + 1)..n :
              (picked(j) /\ j - i < NumStories) => selections[i] # selections[j]

(* C4: when generate_video has returned, on every path, the temporary      *)
(* directory and every file in it are gone.                                *)
C4_TempDirRemovedOnReturn ==
    Returned => (~temp_dir.exists /\ temp_dir.files = {})

C4_Witness ==
    /\ pc = "returned"
    /\ result = "None"
    /\ outcome["tts"] = "ok"
    /\ outcome["download"] = "ok"
    /\ outcome["render"] = "error"

(* C5: when generate_video has returned, every media handle it opened has  *)
(* been closed, on the success path and on every failure path (stated for  *)
(* the runs main starts).                                                  *)
C5_HandlesReleasedOnReturn ==
    (MainRun /\ Returned) => opened \subseteq closed

C8_MissingKeyFailsFast ==
    (MainRun /\ env_key = NoKey) =>
        /\ calls.tts = 0 /\ calls.search = 0 /\ calls.download = 0
        /\ output_file = "none"
        /\ pc = "exited" => exit_code # 0

(* C8 amended: with PEXELS_API_KEY absent the generator uses its built-in  *)
(* default key and the run goes on as any other: speech synthesis is       *)
(* called, the search is called when a background query is given, and the  *)
(* exit code is 0 exactly when generate_video returned an output path.     *)
C8_MissingKeyUsesDefault ==
    env_key = NoKey =>
        /\ pc # "start" => pexels_api_key = DefaultKey
        /\ pc \notin {"start", "generate_video", "tts"} => calls.tts = 1
        /\ (background_query # NoQuery
              /\ pc \in {"download", "transform", "solid", "overlays", "render", "close"})
              => calls.search = 1
        /\ pc = "exited" => (exit_code = 0 <=> result = "path")
        /\ pc = "exited" => (exit_code = 1 <=> result = "None")

C8_Witness ==
    /\ env_key = NoKey
    /\ pc = "exited"
    /\ exit_code = 0
    /\ calls.search = 1
    /\ calls.download = 1

(* C9: main ends either with exit code 0 and one complete output file, or  *)
(* with a non-zero exit code and no output file at all, partial or         *)
(* complete.                                                               *)
C9_AllOrNothingOutput ==
    (MainRun /\ pc = "exited") =>
        \/ exit_code = 0 /\ result = "path" /\ output_file = "complete"
        \/ exit_code # 0 /\ output_file = "none"

(* C10: a background of duration B < target T is repeated                  *)
(* floor(T/B) + 1 times, which covers more than T, and trimmed to exactly  *)
(* T; a background with B >= T is not repeated and is trimmed to T.        *)
C10_BackgroundLooping ==
    background_clip.kind = "video" =>
        LET B == background_clip.native_duration
            T == actual_duration
        IN  /\ B < T =>
                  /\ background_clip.looped
                  /\ background_clip.loops = (T \div B) + 1
                  /\ background_clip.source_duration > T
                  /\ background_clip.source_duration - B <= T
            /\ B >= T =>
                  /\ ~background_clip.looped
                  /\ background_clip.source_duration = B
            /\ background_clip.source_duration >= background_clip.duration
            /\ background_clip.t_start = 0
            /\ background_clip.duration = T

C10_Witness ==
    /\ background_clip.kind = "video"
    /\ background_clip.looped
    /\ background_clip.loops > 2
    /\ actual_duration % background_clip.native_duration # 0
    /\ pc = "exited"
    /\ exit_code = 0
====
